---- MODULE Spec2Model ----
(***************************************************************************)
(* A model of freud's CubaticOrderParameter (the simulated-annealing       *)
(* search for the cubatic orientation) and of PMFXYZ (the 3D anisotropic   *)
(* pair binner), translated from                                           *)
(*   src/cpp/order/CubaticOrderParameter.cc                                *)
(*   src/cpp/pmft/PMFXYZ.cc                                                *)
(*                                                                         *)
(* Number representation.  The code computes in IEEE float.  The model     *)
(* draws every input from dyadic values on which the code's operations are *)
(* exact, and stores them as integers in a fixed unit:                     *)
(*   - temperatures in units of 2^-20  (TempDen units make 1.0),           *)
(*   - scale in units of 1/ScaleDen,                                       *)
(*   - tensor entries in units of 1/4,                                     *)
(*   - orientations as the unit quaternions of the rotations about the z   *)
(*     axis by k*pi/8, k in 0..QuatOrder-1 (a quaternion has period 4*pi), *)
(*   - lengths of the binner in units of 1/LenDen, bin centers in units of *)
(*     1/(2*LenDen).                                                       *)
(* NaN and the infinities are explicit values.                             *)
(***************************************************************************)
EXTENDS Integers, Sequences, FiniteSets, TLC

VARIABLES
    \* ---- CubaticOrderParameter ----
    obj,                        \* "none" | "constructed" | "invalid_argument"
    m_t_initial,                \* float, units of 2^-20
    m_t_final,                  \* float, units of 2^-20
    m_scale,                    \* float, units of 1/ScaleDen
    m_gen_r4_tensor,            \* tensor
    m_n,                        \* last computed number of particles
    particle_rows,              \* rows allocated in m_particle_tensor
    m_global_tensor,            \* tensor
    m_cubatic_orientation,      \* quaternion
    m_cubatic_tensor,           \* tensor
    m_cubatic_order_parameter,  \* score
    pc,                         \* "idle" | "loop" | "returned" | "thrown" | "crashed"
    n,                          \* compute's argument n of the call in progress / last call
    t_current,                  \* local of compute
    loop_count,                 \* local of compute
    last,                       \* branch taken by the last loop iteration
    previous_run,               \* the inputs and the result of the annealer destroyed last
    \* ---- PMFXYZ ----
    pmf_obj,                    \* "none" | "constructed" | "invalid_argument" | "aborted"
    m_box,                      \* [Lx, Ly, Lz, is2D], lengths in units of 1/LenDen
    m_max_x, m_max_y, m_max_z,  \* half-extents, units of 1/LenDen
    m_dx, m_dy, m_dz,           \* grid steps, units of 1/LenDen
    m_nbins_x, m_nbins_y, m_nbins_z,
    m_x_array, m_y_array, m_z_array,   \* bin centers, units of 1/(2*LenDen)
    m_pcf_array,                \* the histogram, a sequence of counters
    m_lc,                       \* whether the constructor created a LinkCell
    \* ---- PMFXYZ::compute ----
    build,                      \* how the build converts a float to unsigned int
    pmf_pc,                     \* "idle" | "running" (inside parallel_for)
    kernel,                     \* "none" | "cell" | "direct": the body parallel_for runs
    m_ref_points, m_ref_orientations, m_extra_orientations,  \* the kernel's
    m_points, m_orientations,   \* members: the arguments of the call in progress
    worker,                     \* per worker: its blocked_range and loop position
    pcf_start,                  \* the histogram when the call in progress began
    calls                       \* compute calls since construction or resetPCF

cubVars == <<obj, m_t_initial, m_t_final, m_scale, m_gen_r4_tensor, m_n,
             particle_rows, m_global_tensor, m_cubatic_orientation,
             m_cubatic_tensor, m_cubatic_order_parameter, pc, n, t_current,
             loop_count, last, previous_run>>

callVars == <<pmf_pc, kernel, m_ref_points, m_ref_orientations,
              m_extra_orientations, m_points, m_orientations, worker, pcf_start>>

pmfVars == <<pmf_obj, m_box, m_max_x, m_max_y, m_max_z, m_dx, m_dy, m_dz,
             m_nbins_x, m_nbins_y, m_nbins_z, m_x_array, m_y_array, m_z_array,
             m_pcf_array, m_lc, build, callVars, calls>>

vars == <<cubVars, pmfVars>>

(***************************************************************************)
(* Bounds of the model.                                                    *)
(***************************************************************************)
\* largest particle count passed to CubaticOrderParameter::compute
MaxN == 1
\* proposals explored per compute call in Spec (SpecCap explores all 10000)
MaxSteps == 3
\* the workers parallel_for runs the kernel on
MaxWorkers == 2
\* the references and the points a compute call is given
MaxPoints == 2
\* the compute calls followed between two resets
MaxCalls == 2

(***************************************************************************)
(* Floats.                                                                 *)
(***************************************************************************)
\* temperature units per 1.0: a temperature t stands for the float t * 2^-20
TempDen == 1048576
\* scale units per 1.0
ScaleDen == 2
\* the double literal 1e-6 as a fraction 1/MicroInv
MicroInv == 1000000

\* float * float of a temperature and a scale; exact on the model's inputs
\* (scale is 0, 1/2 or 1 wherever the product is taken)
FMulScale(t, scale) == (t * scale) \div ScaleDen

(***************************************************************************)
(* Tensors: the entries [0,0,0,0], [0,0,0,1] and [2,2,2,2] of the code's   *)
(* 81-element rank-4 tensor, in units of 1/4.  A tensor is a record        *)
(* [nan, v]: nan = TRUE stands for a buffer whose entries are all NaN      *)
(* (what ComputeGlobalTensor produces for n = 0: 0 * (1/0)).               *)
(***************************************************************************)
TLen == 3
TIdx == 1..TLen
Tensor(v) == [nan |-> FALSE, v |-> v]
NaNTensor == [nan |-> TRUE, v |-> <<0, 0, 0>>]
ZeroTensor == Tensor(<<0, 0, 0>>)

\* a float scalar: [nan, v]
Scalar(x) == [nan |-> FALSE, v |-> x]
NaNScalar == [nan |-> TRUE, v |-> 0]

tensorAdd(a, b) ==
    IF a.nan \/ b.nan THEN NaNTensor
    ELSE Tensor([i \in TIdx |-> a.v[i] + b.v[i]])

tensorSub(a, b) ==
    IF a.nan \/ b.nan THEN NaNTensor
    ELSE Tensor([i \in TIdx |-> a.v[i] - b.v[i]])

RECURSIVE DotSum(_, _, _)
DotSum(a, b, i) == IF i = 0 THEN 0 ELSE DotSum(a, b, i - 1) + a[i] * b[i]

tensorDot(a, b) ==
    IF a.nan \/ b.nan THEN NaNScalar ELSE Scalar(DotSum(a.v, b.v, TLen))

(***************************************************************************)
(* Quaternions: k stands for fromAxisAngle(z, k*pi/8).                     *)
(***************************************************************************)
QuatOrder == 32
Quats == 0..(QuatOrder - 1)

\* quat::fromAxisAngle(axis, angle) for axis = +z (1) or -z (-1) and
\* angle = step*pi/8
fromAxisAngle(axis, step) == (axis * step) % QuatOrder

\* quaternion product of two rotations about z
QuatMul(p, q) == (p + q) % QuatOrder

\* cos(4*theta) and sin(4*theta) for theta = k*pi/8
Cos4(k) == LET r == k % 4 IN IF r = 0 THEN 1 ELSE IF r = 2 THEN -1 ELSE 0
Sin4(k) == LET r == k % 4 IN IF r = 1 THEN 1 ELSE IF r = 3 THEN -1 ELSE 0

\* 2 * sum over the three rotated basis vectors u of tensorProduct(u), before
\* the generator is subtracted.  With c = cos theta, s = sin theta the rotated
\* basis is (c,s,0), (-s,c,0), (0,0,1), so
\*   [0,0,0,0] = 2(c^4 + s^4)    = (3 + cos 4theta)/2
\*   [0,0,0,1] = 2(c^3 s - s^3 c) = (sin 4theta)/2
\*   [2,2,2,2] = 2
\* and in units of 1/4:
RotatedBasisTensor(q) == Tensor(<<6 + 2 * Cos4(q), 2 * Sin4(q), 8>>)

calcCubaticTensor(r4, orientation) ==
    tensorSub(RotatedBasisTensor(orientation), r4)

(***************************************************************************)
(* Scores.  cls is "fin" (the rational num/den, den > 0), "ninf" (minus    *)
(* infinity) or "nan".                                                     *)
(***************************************************************************)
Fin(num, den) == [cls |-> "fin", num |-> num, den |-> den]
NegInf == [cls |-> "ninf", num |-> 0, den |-> 1]
NaNScore == [cls |-> "nan", num |-> 0, den |-> 1]

\* x != x
IsNaN(s) == s.cls = "nan"

\* a > b on floats (false when either is NaN)
FGreater(a, b) ==
    /\ a.cls = "fin"
    /\ \/ b.cls = "ninf"
       \/ b.cls = "fin" /\ a.num * b.den > b.num * a.den

\* a = b on floats (false when either is NaN)
FEqual(a, b) ==
    \/ a.cls = "ninf" /\ b.cls = "ninf"
    \/ a.cls = "fin" /\ b.cls = "fin" /\ a.num * b.den = b.num * a.den

\* 1.0 - tensorDot(diff,diff)/tensorDot(cubatic_tensor,cubatic_tensor)
\*   0/0 is NaN; x/0 for x > 0 is +inf and 1 - inf is -inf
calcCubaticOrderParameter(global_tensor, cubatic_tensor) ==
    LET diff == tensorSub(global_tensor, cubatic_tensor)
        dd == tensorDot(diff, diff)
        cc == tensorDot(cubatic_tensor, cubatic_tensor)
    IN  IF dd.nan \/ cc.nan THEN NaNScore
        ELSE IF cc.v = 0 THEN (IF dd.v = 0 THEN NaNScore ELSE NegInf)
        ELSE Fin(cc.v - dd.v, cc.v)

(***************************************************************************)
(* CubaticOrderParameter::CubaticOrderParameter                            *)
(***************************************************************************)
\* the inputs the constructor is called with
TInitialSet == {2, 4, 8}
TFinalSet == {1, 2, 4}
ScaleSet == {-1, 0, 1, 2, 3}
R4Set == {ZeroTensor, RotatedBasisTensor(0)}

\* if (m_t_initial < m_t_final) throw
TInitialCheckFails(t_initial, t_final) == t_initial < t_final

\* if (t_final < 1e-6) throw: the float t_final * 2^-20 against the double 1e-6
TFinalCheckFails(t_final) == t_final * MicroInv < TempDen

\* the mutant of ScaleCheckFails: scale = 1 is rejected
ScaleCheckFailsAtOne(scale) == (scale >= ScaleDen) \/ (scale < 0)

\* if ((scale > 1) || (scale < 0)) throw
ScaleCheckFails(scale) == (scale > ScaleDen) \/ (scale < 0)

\* m_cubatic_order_parameter is not initialised by the constructor: a read
\* before the first compute sees an arbitrary float
UninitScores == {NaNScore, Fin(0, 1)}

Construct ==
    /\ obj = "none"
    /\ \E t_initial \in TInitialSet, t_final \in TFinalSet,
          scale \in ScaleSet, r4_tensor \in R4Set :
        /\ m_t_initial' = t_initial
        /\ m_t_final' = t_final
        /\ m_scale' = scale
        /\ m_n' = 0
        /\ IF \/ TInitialCheckFails(t_initial, t_final)
              \/ TFinalCheckFails(t_final)
              \/ ScaleCheckFails(scale)
           THEN /\ obj' = "invalid_argument"
                /\ UNCHANGED <<m_gen_r4_tensor, particle_rows, m_global_tensor,
                               m_cubatic_tensor, m_cubatic_order_parameter>>
           ELSE /\ obj' = "constructed"
                /\ m_global_tensor' = ZeroTensor
                /\ m_cubatic_tensor' = ZeroTensor
                /\ particle_rows' = m_n'
                /\ m_gen_r4_tensor' = r4_tensor
                /\ m_cubatic_order_parameter' \in UninitScores
    /\ UNCHANGED <<m_cubatic_orientation, pc, n, t_current, loop_count, last,
                   previous_run, pmfVars>>

(***************************************************************************)
(* CubaticOrderParameter::compute                                          *)
(***************************************************************************)
\* the quaternions of the particles passed to compute
ParticleQuats == {0, 2}
\* every array of n <= MaxN particle orientations
OrientationArrays == UNION {[1..k -> ParticleQuats] : k \in 0..MaxN}

\* the draws of the random number generators: the axis is +z or -z, the
\* angle of m_angle_dist is a multiple of pi/8, the 0.1-scaled angle of a
\* proposal is 0 or pi/8 (0.1*2*pi < 2*pi/8), m_phi_dist yields the test
\* value 0.0 (TestZero) or the largest float below 1 (TestMax)
Axes == {1, -1}
InitialAngles == {0, 1, 2}
ProposalAngles == {0, 1}
TestZero == 0
TestMax == 1
TestValues == {TestZero, TestMax}

\* ComputeParticleTensor: row i of the particle tensor
ParticleTensorRow(orientation) == RotatedBasisTensor(orientation)

RECURSIVE RowSum(_, _)
RowSum(orientations, k) ==
    IF k = 0 THEN ZeroTensor
    ELSE tensorAdd(RowSum(orientations, k - 1), ParticleTensorRow(orientations[k]))

\* ComputeGlobalTensor: the sum over the n rows times n_inv = 1.0/n; for
\* n = 0 that is 0 * inf = NaN in every entry
ComputeGlobalTensor(orientations) ==
    LET cnt == Len(orientations)
        sum == RowSum(orientations, cnt)
    IN  IF cnt = 0 THEN NaNTensor
        ELSE Tensor([i \in TIdx |-> sum.v[i] \div cnt])

\* lines 489-530: everything before the annealing loop
ComputeBegin ==
    /\ obj = "constructed"
    /\ pc \in {"idle", "returned", "thrown"}
    /\ \E orientations \in OrientationArrays, axis \in Axes, angle \in InitialAngles :
        LET current_orientation == fromAxisAngle(axis, angle)
            global == tensorSub(ComputeGlobalTensor(orientations), m_gen_r4_tensor)
            cubatic == calcCubaticTensor(m_gen_r4_tensor, current_orientation)
        IN  /\ n' = Len(orientations)
            /\ particle_rows' = IF m_n # n' THEN n' ELSE particle_rows
            /\ m_global_tensor' = global
            /\ m_cubatic_orientation' = current_orientation
            /\ m_cubatic_tensor' = cubatic
            /\ m_cubatic_order_parameter' = calcCubaticOrderParameter(global, cubatic)
    /\ t_current' = m_t_initial
    /\ loop_count' = 0
    /\ last' = "begin"
    \* lines 496-500 write n rows: beyond the end of a buffer of fewer rows
    \* the write is undefined, it lands in the heap or stops the process
    /\ pc' \in (IF n' > particle_rows' THEN {"loop", "crashed"} ELSE {"loop"})
    /\ UNCHANGED <<obj, m_t_initial, m_t_final, m_scale, m_gen_r4_tensor, m_n,
                   previous_run, pmfVars>>

\* the step cap of the annealing loop
LoopCap == 10000

\* the mutant of LoopCondition: the loop without its step cap
LoopConditionWithoutCap == t_current > m_t_final

\* the mutant of LoopCondition: >= in place of > on the temperatures
LoopConditionAtOrAbove == (t_current >= m_t_final) /\ (loop_count < LoopCap)

\* while ((t_current > m_t_final) && (loop_count < 10000))
LoopCondition == (t_current > m_t_final) /\ (loop_count < LoopCap)

\* the mutant of Proposal: the rotation is applied to a proposal already
\* rotated, not to the committed orientation
ProposalFromProposal(axis, angle) ==
    QuatMul(fromAxisAngle(axis, angle),
            QuatMul(fromAxisAngle(axis, angle), m_cubatic_orientation))

\* the proposal of one iteration: line 543
Proposal(axis, angle) == QuatMul(fromAxisAngle(axis, angle), m_cubatic_orientation)

\* the mutant of GreedyAccepts: >= in place of >
GreedyAcceptsOrEqual(new_order_parameter) ==
    \/ FGreater(new_order_parameter, m_cubatic_order_parameter)
    \/ FEqual(new_order_parameter, m_cubatic_order_parameter)

\* if (new_order_parameter > m_cubatic_order_parameter)
GreedyAccepts(new_order_parameter) ==
    FGreater(new_order_parameter, m_cubatic_order_parameter)

\* boltzmann_factor >= test_value, where boltzmann_factor =
\* exp(-(m_cubatic_order_parameter - new_order_parameter) / t_current), taken
\* in the else branch (new is not greater than the stored score).
\*   a NaN or (-inf) - (-inf) difference gives a NaN factor: never >=
\*   a zero difference gives exp(-0) = 1 >= any test value
\*   a positive difference gives a factor in [0, 1): >= TestZero only (the
\*   model's differences are at least 1/200 and its temperatures at most
\*   2^-17, so the factor is far below TestMax)
BoltzmannAccepts(new_order_parameter, test_value) ==
    LET old == m_cubatic_order_parameter
    IN  IF IsNaN(old) \/ IsNaN(new_order_parameter) THEN FALSE
        ELSE IF old.cls = "ninf" /\ new_order_parameter.cls = "ninf" THEN FALSE
        ELSE IF FEqual(old, new_order_parameter) THEN TRUE
        ELSE test_value = TestZero

\* the mutant of Commit: the orientation of the accepted proposal is not stored
CommitKeepsOrientation(current_orientation, new_cubatic_tensor, new_order_parameter) ==
    /\ m_cubatic_tensor' = new_cubatic_tensor
    /\ m_cubatic_order_parameter' = new_order_parameter
    /\ m_cubatic_orientation' = m_cubatic_orientation
    /\ t_current' = FMulScale(t_current, m_scale)

\* memcpy(m_cubatic_tensor, ...); m_cubatic_order_parameter = ...;
\* m_cubatic_orientation = ...; then, after the if/else, t_current *= m_scale
Commit(current_orientation, new_cubatic_tensor, new_order_parameter) ==
    /\ m_cubatic_tensor' = new_cubatic_tensor
    /\ m_cubatic_order_parameter' = new_order_parameter
    /\ m_cubatic_orientation' = current_orientation
    /\ t_current' = FMulScale(t_current, m_scale)

\* the mutant of Continue: the rejected proposal falls through to
\* t_current *= m_scale
ContinueFallsThrough ==
    /\ UNCHANGED <<m_cubatic_tensor, m_cubatic_order_parameter, m_cubatic_orientation>>
    /\ t_current' = FMulScale(t_current, m_scale)

\* else { continue; }: a rejected proposal skips t_current *= m_scale
Continue ==
    UNCHANGED <<m_cubatic_tensor, m_cubatic_order_parameter,
                m_cubatic_orientation, t_current>>

\* one iteration of the loop, by the branch it takes; tests are the values
\* m_phi_dist may yield for test_value
Iteration(branch, tests) ==
    /\ pc = "loop"
    /\ LoopCondition
    /\ loop_count' = loop_count + 1
    /\ \E axis \in Axes, angle \in ProposalAngles :
        LET current_orientation == Proposal(axis, angle)
            new_cubatic_tensor == calcCubaticTensor(m_gen_r4_tensor, current_orientation)
            new_order_parameter ==
                calcCubaticOrderParameter(m_global_tensor, new_cubatic_tensor)
        IN  \/ /\ branch = "throw"
               /\ IsNaN(new_order_parameter)
               /\ pc' = "thrown"
               /\ UNCHANGED <<m_cubatic_tensor, m_cubatic_order_parameter,
                              m_cubatic_orientation, t_current>>
            \/ /\ branch = "greedy"
               /\ ~IsNaN(new_order_parameter)
               /\ GreedyAccepts(new_order_parameter)
               /\ Commit(current_orientation, new_cubatic_tensor, new_order_parameter)
               /\ pc' = "loop"
            \/ /\ branch = "boltzmann"
               /\ ~IsNaN(new_order_parameter)
               /\ ~GreedyAccepts(new_order_parameter)
               /\ \E test_value \in tests :
                    BoltzmannAccepts(new_order_parameter, test_value)
               /\ Commit(current_orientation, new_cubatic_tensor, new_order_parameter)
               /\ pc' = "loop"
            \/ /\ branch = "reject"
               /\ ~IsNaN(new_order_parameter)
               /\ ~GreedyAccepts(new_order_parameter)
               /\ \E test_value \in tests :
                    ~BoltzmannAccepts(new_order_parameter, test_value)
               /\ pc' = "loop"
               /\ Continue
    /\ last' = branch
    /\ UNCHANGED <<obj, m_t_initial, m_t_final, m_scale, m_gen_r4_tensor, m_n,
                   particle_rows, m_global_tensor, n, previous_run, pmfVars>>

\* lines 547-551: the proposal's score is NaN
ProposeThrow == loop_count < MaxSteps /\ Iteration("throw", TestValues)
\* lines 552-557
AcceptGreedy == loop_count < MaxSteps /\ Iteration("greedy", TestValues)
\* lines 558-567
AcceptBoltzmann == loop_count < MaxSteps /\ Iteration("boltzmann", TestValues)
\* lines 568-571
Reject == loop_count < MaxSteps /\ Iteration("reject", TestValues)

\* the loop condition fails; lines 593-595
Return ==
    /\ pc = "loop"
    /\ ~LoopCondition
    /\ m_n' = n
    /\ pc' = "returned"
    /\ UNCHANGED <<obj, m_t_initial, m_t_final, m_scale, m_gen_r4_tensor,
                   particle_rows, m_global_tensor, m_cubatic_orientation,
                   m_cubatic_tensor, m_cubatic_order_parameter, n, t_current,
                   loop_count, last, previous_run, pmfVars>>

\* no annealer has been destroyed yet
NoRun == [done |-> FALSE, inputs |-> <<>>, result |-> <<>>]

\* what the caller gave the annealer: the constructor's arguments and, through
\* compute's orientations, n and the global tensor
RunInputs ==
    <<m_t_initial, m_t_final, m_scale, m_gen_r4_tensor, n, m_global_tensor>>

\* what compute left: getCubaticOrientation, getCubaticTensor,
\* getCubaticOrderParameter
RunResult ==
    <<m_cubatic_orientation, m_cubatic_tensor, m_cubatic_order_parameter>>

\* CubaticOrderParameter::~CubaticOrderParameter after a compute call that
\* returned: nothing of the annealer, its generator included, outlives it
Destroy ==
    /\ obj = "constructed"
    /\ pc = "returned"
    /\ previous_run' = [done |-> TRUE, inputs |-> RunInputs, result |-> RunResult]
    /\ obj' = "none"
    /\ m_t_initial' = 0 /\ m_t_final' = 0 /\ m_scale' = 0
    /\ m_gen_r4_tensor' = ZeroTensor
    /\ m_n' = 0 /\ particle_rows' = 0
    /\ m_global_tensor' = ZeroTensor
    /\ m_cubatic_orientation' = 0
    /\ m_cubatic_tensor' = ZeroTensor
    /\ m_cubatic_order_parameter' = NaNScore
    /\ pc' = "idle" /\ n' = 0 /\ t_current' = 0 /\ loop_count' = 0
    /\ last' = "none"
    /\ UNCHANGED pmfVars

(***************************************************************************)
(* PMFXYZ::PMFXYZ                                                          *)
(***************************************************************************)
\* length units per 1.0
LenDen == 2

\* the inputs the constructor is called with
Box(Lx, Ly, Lz, is2D) == [Lx |-> Lx, Ly |-> Ly, Lz |-> Lz, is2D |-> is2D]
BoxSet == {Box(4, 4, 4, FALSE), Box(4, 4, 2, FALSE), Box(4, 4, 0, TRUE),
           Box(12, 12, 12, FALSE), Box(12, 12, 0, TRUE), Box(9, 9, 9, FALSE)}
MaxSet == {-1, 1, 2}
StepSet == {-1, 0, 1, 2}

\* if (dx < 0.0f) throw invalid_argument("dx must be positive")
StepCheckFails(d) == d < 0

\* if (max_x < 0.0f) throw
MaxCheckFails(max) == max < 0

\* if (dx > max_x) throw
StepExceedsMax(d, max) == d > max

\* max_x > box.getLx()/2
ExceedsHalfBox(max, L) == 2 * max > L

\* the mutant of BoxCheckFails: max_z is checked in a 2D box too
BoxCheckFailsIn2D(box, max_x, max_y, max_z) ==
    \/ ExceedsHalfBox(max_x, box.Lx) \/ ExceedsHalfBox(max_y, box.Ly)
    \/ ExceedsHalfBox(max_z, box.Lz)

\* lines 50-53
BoxCheckFails(box, max_x, max_y, max_z) ==
    \/ ExceedsHalfBox(max_x, box.Lx) \/ ExceedsHalfBox(max_y, box.Ly)
    \/ ExceedsHalfBox(max_z, box.Lz) /\ ~box.is2D

\* the values int(2 * floorf(max / 0.0f)) may take: the conversion of an
\* infinite float to int is undefined
UndefinedBins == {0, 2}

\* int(2 * floorf(max / d)), for 0 <= d <= max; the quotient of the model's
\* inputs is exact or far from an integer, so floorf sees the exact quotient
NBins(max, d) == IF d = 0 THEN UndefinedBins ELSE {2 * (max \div d)}

\* lines 62-69: float x = float(i) * dx; float nextx = float(i+1) * dx;
\* array[i] = -max + ((x + nextx) / 2.0), for the C index i = 0..nbins-1,
\* stored at position i + 1 and in units of 1/(2*LenDen)
BinCenter(max, d, i) ==
    LET x == i * d
        nextx == (i + 1) * d
    IN  -(2 * max) + (x + nextx)

BinCenters(max, d, nbins) == [k \in 1..nbins |-> BinCenter(max, d, k - 1)]

\* lines 90-91: the zeroed histogram
ZeroHistogram(nx, ny, nz) == [k \in 1..(nx * ny * nz) |-> 0]

\* the mutant of useCells: Lz is taken in a 2D box too
useCellsWithLz(box, max_x, max_y, max_z) ==
    LET lxy == IF box.Lx < box.Ly THEN box.Lx ELSE box.Ly
        l_min == IF box.Lz < lxy THEN box.Lz ELSE lxy
    IN  9 * (max_x * max_x + max_y * max_y + max_z * max_z) < l_min * l_min

\* PMFXYZ::useCells, with rmax < l_min/3 squared (both sides are >= 0)
useCells(box, max_x, max_y, max_z) ==
    LET lxy == IF box.Lx < box.Ly THEN box.Lx ELSE box.Ly
        l_min == IF ~box.is2D /\ box.Lz < lxy THEN box.Lz ELSE lxy
    IN  9 * (max_x * max_x + max_y * max_y + max_z * max_z) < l_min * l_min

\* PMFXYZ::PMFXYZ(box, max_x, max_y, max_z, dx, dy, dz)
PMFXYZ(box, max_x, max_y, max_z, dx, dy, dz) ==
    /\ pmf_obj = "none"
    /\ m_box' = box
    /\ m_max_x' = max_x /\ m_max_y' = max_y /\ m_max_z' = max_z
    /\ m_dx' = dx /\ m_dy' = dy /\ m_dz' = dz
    /\ IF \/ StepCheckFails(dx) \/ StepCheckFails(dy) \/ StepCheckFails(dz)
          \/ MaxCheckFails(max_x) \/ MaxCheckFails(max_y) \/ MaxCheckFails(max_z)
          \/ StepExceedsMax(dx, max_x) \/ StepExceedsMax(dy, max_y)
          \/ StepExceedsMax(dz, max_z)
          \/ BoxCheckFails(box, max_x, max_y, max_z)
       THEN /\ pmf_obj' = "invalid_argument"
            /\ UNCHANGED <<m_nbins_x, m_nbins_y, m_nbins_z, m_x_array,
                           m_y_array, m_z_array, m_pcf_array, m_lc>>
       ELSE \E nx \in NBins(max_x, dx), ny \in NBins(max_y, dy),
               nz \in NBins(max_z, dz) :
            /\ m_nbins_x' = nx /\ m_nbins_y' = ny /\ m_nbins_z' = nz
            /\ \/ \* an assert(m_nbins > 0) fails
                  /\ nx = 0 \/ ny = 0 \/ nz = 0
                  /\ pmf_obj' = "aborted"
                  /\ UNCHANGED <<m_x_array, m_y_array, m_z_array,
                                 m_pcf_array, m_lc>>
               \/ \* the asserts hold or are compiled out
                  /\ pmf_obj' = "constructed"
                  /\ m_x_array' = BinCenters(max_x, dx, nx)
                  /\ m_y_array' = BinCenters(max_y, dy, ny)
                  /\ m_z_array' = BinCenters(max_z, dz, nz)
                  /\ m_pcf_array' = ZeroHistogram(nx, ny, nz)
                  /\ m_lc' = useCells(box, max_x, max_y, max_z)
    /\ UNCHANGED <<cubVars, build, callVars, calls>>

PmfConstruct ==
    /\ pmf_obj = "none"
    /\ \E box \in BoxSet, max_x \in MaxSet, max_y \in MaxSet, max_z \in MaxSet,
          dx \in StepSet, dy \in StepSet, dz \in StepSet :
        PMFXYZ(box, max_x, max_y, max_z, dx, dy, dz)

(***************************************************************************)
(* The binning kernels: ComputePMFTWithoutCellList::operator() and         *)
(* ComputePMFTWithCellList::operator().  Positions and displacements are   *)
(* floats that are multiples of 1/PosDen; the grid parameters are          *)
(* multiples of 1/LenDen and powers of two, so 1.0f / m_dx and every       *)
(* product and sum below are exact in float.                               *)
(***************************************************************************)
\* position units per 1.0
PosDen == 1024

\* a length of the grid (units of 1/LenDen) in position units
ToPos(len) == len * (PosDen \div LenDen)

\* float3
Vec3(x, y, z) == [x |-> x, y |-> y, z |-> z]

\* the mutant of Displacement: point - ref
DisplacementFromRef(ref, point) ==
    Vec3(point.x - ref.x, point.y - ref.y, point.z - ref.z)

\* lines 180-182: ref - point, per component
Displacement(ref, point) == Vec3(ref.x - point.x, ref.y - point.y, ref.z - point.z)

\* trajectory::Box::wrap on one axis of length L (position units): the
\* minimum image of d, for |d| <= L
WrapAxis(d, L) == IF 2 * d > L THEN d - L ELSE IF 2 * d < -L THEN d + L ELSE d

\* trajectory::Box::wrap: a 2D box leaves z unchanged
wrap(box, v) ==
    Vec3(WrapAxis(v.x, ToPos(box.Lx)), WrapAxis(v.y, ToPos(box.Ly)),
         IF box.is2D THEN v.z ELSE WrapAxis(v.z, ToPos(box.Lz)))

\* xsq < 1e-6, for xsq the square of c / PosDen; a square of 1/PosDen or
\* more is above 1e-6, and below it the product is within TLC's integers
BelowThreshold(c) == c * c < PosDen /\ c * c * MicroInv < PosDen * PosDen

\* the mutant of SameParticle: one component below the threshold is enough
SameParticleOnAnyAxis(delta) ==
    BelowThreshold(delta.x) \/ BelowThreshold(delta.y) \/ BelowThreshold(delta.z)

\* lines 192, 341: (xsq < 1e-6) && (ysq < 1e-6) && (zsq < 1e-6)
SameParticle(delta) ==
    BelowThreshold(delta.x) /\ BelowThreshold(delta.y) /\ BelowThreshold(delta.z)

\* conj(q) of a rotation about z
conj(q) == (QuatOrder - q) % QuatOrder

\* rotate(q, v) for q a rotation about z by a multiple of pi/2 (q a multiple
\* of QuarterTurn): q v q*, the rotation of v by the angle of q
QuarterTurn == 4
rotate(q, v) ==
    LET t == q \div QuarterTurn
    IN  Vec3(Cos4(t) * v.x - Sin4(t) * v.y, Sin4(t) * v.x + Cos4(t) * v.y, v.z)

\* the mutant of BodyFrame: the vector is rotated by q, not by conj(q)
BodyFrameByQ(q, qe, delta) == rotate(qe, rotate(q, delta))

\* lines 211-213, 362-365: v = rotate(conj(q), v); v = rotate(qe, v)
BodyFrame(q, qe, delta) == rotate(qe, rotate(conj(q), delta))

\* a float value of floorf(x * dx_inv): finite, or what x * (1.0f / 0.0f) is
FloatBin(cls, v) == [cls |-> cls, v |-> v]

\* lines 164, 220: floorf(x * dx_inv) with dx_inv = 1.0f / m_dx, for x in
\* position units and d >= 0 in units of 1/LenDen
FloorBin(x, d) ==
    IF d = 0
    THEN FloatBin(IF x > 0 THEN "pinf" ELSE IF x < 0 THEN "ninf" ELSE "nan", 0)
    ELSE FloatBin("fin", x \div ToPos(d))

\* an unsigned int: high is its bit 31, low the bits below
UInt(high, low) == [high |-> high, low |-> low]
IntMax == 2147483647

\* the builds: with __SSE2__ the conversion is _mm_cvtt_ss2si followed by
\* int -> unsigned int; without it the conversion (unsigned int)(binx) of a
\* negative or non-finite float is undefined, and a build whose conversion
\* instruction saturates gives 0 for a negative value
Builds == {"sse2", "saturating"}

\* lines 224-232: a bin that is not negative converts to itself; with
\* __SSE2__ a negative bin b becomes 2^32 + b and a non-finite one 2^31
FloatToUnsigned(b, bld) ==
    IF b.cls = "fin" /\ b.v >= 0 THEN UInt(0, b.v)
    ELSE IF bld = "sse2"
         THEN IF b.cls = "fin" THEN UInt(1, (IntMax + b.v) + 1) ELSE UInt(1, 0)
         ELSE IF b.cls = "pinf" THEN UInt(1, IntMax) ELSE UInt(0, 0)

\* ibinx < m_nbins_x, for the unsigned ibinx and nbins below 2^31
UnsignedLess(u, nbins) == u.high = 0 /\ u.low < nbins

\* lines 235, 388
InGrid(bx, by, bz) ==
    /\ UnsignedLess(bx, m_nbins_x) /\ UnsignedLess(by, m_nbins_y)
    /\ UnsignedLess(bz, m_nbins_z)

\* lines 237, 390: ibinz*m_nbins_y*m_nbins_x + ibiny*m_nbins_x + ibinx, for a
\* triple in the grid
BinIndex(bx, by, bz) ==
    bz.low * m_nbins_y * m_nbins_x + by.low * m_nbins_x + bx.low

\* the arguments of one compute call
Frame(refs, ref_q, pts, q, extra_q) ==
    [ref_points |-> refs, ref_orientations |-> ref_q, points |-> pts,
     orientations |-> q, extra_orientations |-> extra_q]

\* the frame of the call in progress
CurrentFrame ==
    Frame(m_ref_points, m_ref_orientations, m_points, m_orientations,
          m_extra_orientations)

\* the mutant of RefQuat: the orientation is read from the targets' array
RefQuatOfTargets(f, i) == f.orientations[IF i <= Len(f.orientations) THEN i ELSE 1]

\* lines 202-205, 352-355: quat<float> q(m_ref_orientations[i] ...)
RefQuat(f, i) == f.ref_orientations[i]

\* lines 207-210, 357-360: quat<float> qe(m_extra_orientations[i] ...)
ExtraQuat(f, i) == f.extra_orientations[i]

\* the body of the inner loop for reference i and point j (1-based) of the
\* frame f: the floored coordinates, the unsigned bin triple, whether the
\* pair is skipped and whether it is binned
Pair(f, i, j) ==
    LET delta == wrap(m_box, Displacement(f.ref_points[i], f.points[j]))
        v == BodyFrame(RefQuat(f, i), ExtraQuat(f, i), delta)
        x == v.x + ToPos(m_max_x)
        y == v.y + ToPos(m_max_y)
        z == v.z + ToPos(m_max_z)
        binx == FloorBin(x, m_dx)
        biny == FloorBin(y, m_dy)
        binz == FloorBin(z, m_dz)
        ibinx == FloatToUnsigned(binx, build)
        ibiny == FloatToUnsigned(biny, build)
        ibinz == FloatToUnsigned(binz, build)
        skipped == SameParticle(delta)
    IN  [delta |-> delta, skipped |-> skipped,
         binx |-> binx, biny |-> biny, binz |-> binz,
         ibinx |-> ibinx, ibiny |-> ibiny, ibinz |-> ibinz,
         binned |-> ~skipped /\ InGrid(ibinx, ibiny, ibinz),
         index |-> IF InGrid(ibinx, ibiny, ibinz)
                   THEN BinIndex(ibinx, ibiny, ibinz) ELSE 0]

\* the mutant of Increment: a store of 1 in place of the read-modify-write
StoreOne(array, index) == [array EXCEPT ![index + 1] = 1]

\* lines 237, 390: m_pcf_array[index]++ on atomic<unsigned int>, for a
\* counter below 2^32 - 1
Increment(array, index) == [array EXCEPT ![index + 1] = @ + 1]

(***************************************************************************)
(* locality::LinkCell, as PMFXYZ uses it: LinkCell(box, r_max) divides     *)
(* every periodic axis in the largest number of cells of width >= r_max    *)
(* (a 2D box has one layer of cells); getCellNeighbors gives the cells     *)
(* that differ by at most one on every axis, the cell itself included.     *)
(***************************************************************************)
\* the number of cells along an axis of length L for r_max * r_max = rsq
CellDim(L, rsq) ==
    IF rsq > L * L THEN 1
    ELSE CHOOSE k \in 1..L : k * k * rsq <= L * L /\ (k + 1) * (k + 1) * rsq > L * L

CellDims(box, rsq) ==
    Vec3(CellDim(box.Lx, rsq), CellDim(box.Ly, rsq),
         IF box.is2D THEN 1 ELSE CellDim(box.Lz, rsq))

\* the cell coordinate of the position p on an axis of length L cut in dim cells
CellAxis(p, L, dim) == (((2 * p + ToPos(L)) * dim) \div (2 * ToPos(L))) % dim

\* LinkCell::getCell
getCell(box, dims, p) ==
    Vec3(CellAxis(p.x, box.Lx, dims.x), CellAxis(p.y, box.Ly, dims.y),
         IF box.is2D THEN 0 ELSE CellAxis(p.z, box.Lz, dims.z))

AdjacentAxis(a, b, dim) == (a - b) % dim \in {0, 1, dim - 1}

\* whether cell b is in getCellNeighbors(a)
IsNeighbor(a, b, dims) ==
    AdjacentAxis(a.x, b.x, dims.x) /\ AdjacentAxis(a.y, b.y, dims.y)
    /\ AdjacentAxis(a.z, b.z, dims.z)

\* the points the cell-listed kernel visits for the reference ref: those of
\* the neighbor cells of ref's cell (lines 315-325)
CellCandidates(ref, pts) ==
    LET rsq == m_max_x * m_max_x + m_max_y * m_max_y + m_max_z * m_max_z
        dims == CellDims(m_box, rsq)
        InNeighborCell(j) == IsNeighbor(getCell(m_box, dims, ref),
                                        getCell(m_box, dims, pts[j]), dims)
    IN  SelectSeq([j \in 1..Len(pts) |-> j], InNeighborCell)

\* line 176: for (unsigned int j = 0; j < m_Np; j++)
DirectCandidates(pts) == [j \in 1..Len(pts) |-> j]

\* the points the kernel k visits for the reference ref, in order
Candidates(k, ref, pts) ==
    IF k = "cell" THEN CellCandidates(ref, pts) ELSE DirectCandidates(pts)

(***************************************************************************)
(* parallel_for(blocked_range<size_t>(0, Nref), body): the range is cut    *)
(* in consecutive pieces, one per worker, and the workers run their        *)
(* pieces concurrently.                                                    *)
(***************************************************************************)
Workers == 1..MaxWorkers

\* the position of a worker: the next pair is (i, the c-th candidate of i);
\* i = end when the range is done
Position(i, c, end) == [i |-> i, c |-> c, end |-> end]

\* the loop position at or after (i, c) that has a candidate to visit
RECURSIVE LoopPosition(_, _, _, _, _, _)
LoopPosition(k, refs, pts, i, c, end) ==
    IF i >= end THEN Position(end, 1, end)
    ELSE IF c <= Len(Candidates(k, refs[i], pts)) THEN Position(i, c, end)
         ELSE LoopPosition(k, refs, pts, i + 1, 1, end)

\* the cuts of [0, nref) in pieces for the first nw workers
Cuts(nref, nw) ==
    {cut \in [0..MaxWorkers -> 0..nref] :
        /\ cut[0] = 0
        /\ \A w \in Workers : cut[w - 1] <= cut[w]
        /\ \A w \in Workers : w >= nw => cut[w] = nref}

IdleWorkers == [w \in Workers |-> Position(1, 1, 1)]

\* PMFXYZ::compute up to the start of the workers, called with a frame of
\* frames and nw workers
computeBegin(frames, nw) ==
    /\ pmf_obj = "constructed"
    /\ pmf_pc = "idle"
    /\ \E f \in frames :
        \E cut \in Cuts(Len(f.ref_points), nw) :
            LET k == IF useCells(m_box, m_max_x, m_max_y, m_max_z)
                     THEN "cell" ELSE "direct"
            IN  /\ kernel' = k
                /\ m_ref_points' = f.ref_points
                /\ m_ref_orientations' = f.ref_orientations
                /\ m_points' = f.points
                /\ m_orientations' = f.orientations
                /\ m_extra_orientations' = f.extra_orientations
                /\ worker' = [w \in Workers |->
                                LoopPosition(k, f.ref_points, f.points,
                                             cut[w - 1] + 1, 1, cut[w] + 1)]
    /\ pcf_start' = m_pcf_array
    /\ pmf_pc' = "running"
    /\ UNCHANGED <<cubVars, pmf_obj, m_box, m_max_x, m_max_y, m_max_z, m_dx, m_dy,
                   m_dz, m_nbins_x, m_nbins_y, m_nbins_z, m_x_array, m_y_array,
                   m_z_array, m_pcf_array, m_lc, build, calls>>

\* one turn of the inner loop of worker w
WorkerStep(w) ==
    /\ pmf_pc = "running"
    /\ worker[w].i < worker[w].end
    /\ LET at == worker[w]
           j == Candidates(kernel, m_ref_points[at.i], m_points)[at.c]
           pair == Pair(CurrentFrame, at.i, j)
       IN  /\ m_pcf_array' = IF pair.binned THEN Increment(m_pcf_array, pair.index)
                             ELSE m_pcf_array
           /\ worker' = [worker EXCEPT ![w] =
                           LoopPosition(kernel, m_ref_points, m_points, at.i,
                                        at.c + 1, at.end)]
    /\ UNCHANGED <<cubVars, pmf_obj, m_box, m_max_x, m_max_y, m_max_z, m_dx, m_dy,
                   m_dz, m_nbins_x, m_nbins_y, m_nbins_z, m_x_array, m_y_array,
                   m_z_array, m_lc, build, pmf_pc, kernel, m_ref_points,
                   m_ref_orientations, m_extra_orientations, m_points,
                   m_orientations, pcf_start, calls>>

\* every worker has finished its piece
AllDone == \A w \in Workers : worker[w].i = worker[w].end

\* the blank arguments and workers between calls
CallIdle ==
    /\ pmf_pc = "idle"
    /\ kernel = "none"
    /\ m_ref_points = <<>> /\ m_ref_orientations = <<>>
    /\ m_extra_orientations = <<>> /\ m_points = <<>> /\ m_orientations = <<>>
    /\ worker = IdleWorkers
    /\ pcf_start = <<>>

\* parallel_for returns, and compute with it
computeReturn ==
    /\ pmf_pc = "running"
    /\ AllDone
    /\ pmf_pc' = "idle"
    /\ kernel' = "none"
    /\ m_ref_points' = <<>> /\ m_ref_orientations' = <<>>
    /\ m_extra_orientations' = <<>> /\ m_points' = <<>> /\ m_orientations' = <<>>
    /\ worker' = IdleWorkers
    /\ pcf_start' = <<>>
    /\ calls' = calls + 1
    /\ UNCHANGED <<cubVars, pmf_obj, m_box, m_max_x, m_max_y, m_max_z, m_dx, m_dy,
                   m_dz, m_nbins_x, m_nbins_y, m_nbins_z, m_x_array, m_y_array,
                   m_z_array, m_pcf_array, m_lc, build>>

\* the mutant of resetPCF: the memset covers nbins_x*nbins_y counters only
resetPCFFirstPlane ==
    /\ pmf_obj = "constructed"
    /\ pmf_pc = "idle"
    /\ m_pcf_array' = [b \in 1..Len(m_pcf_array) |->
                        IF b <= m_nbins_x * m_nbins_y THEN 0 ELSE m_pcf_array[b]]
    /\ calls' = 0
    /\ UNCHANGED <<cubVars, pmf_obj, m_box, m_max_x, m_max_y, m_max_z, m_dx, m_dy,
                   m_dz, m_nbins_x, m_nbins_y, m_nbins_z, m_x_array, m_y_array,
                   m_z_array, m_lc, build, callVars>>

\* PMFXYZ::resetPCF
resetPCF ==
    /\ pmf_obj = "constructed"
    /\ pmf_pc = "idle"
    /\ m_pcf_array' = ZeroHistogram(m_nbins_x, m_nbins_y, m_nbins_z)
    /\ calls' = 0
    /\ UNCHANGED <<cubVars, pmf_obj, m_box, m_max_x, m_max_y, m_max_z, m_dx, m_dy,
                   m_dz, m_nbins_x, m_nbins_y, m_nbins_z, m_x_array, m_y_array,
                   m_z_array, m_lc, build, callVars>>

\* PMFXYZ::~PMFXYZ: if (useCells()) delete m_lc
PmfDestroy ==
    /\ pmf_obj = "constructed"
    /\ pmf_pc = "idle"
    /\ IF useCells(m_box, m_max_x, m_max_y, m_max_z)
       THEN /\ pmf_obj' = IF m_lc THEN "destroyed" ELSE "invalid_delete"
            /\ m_lc' = FALSE
       ELSE /\ pmf_obj' = "destroyed"
            /\ UNCHANGED m_lc
    /\ UNCHANGED <<cubVars, m_box, m_max_x, m_max_y, m_max_z, m_dx, m_dy,
                   m_dz, m_nbins_x, m_nbins_y, m_nbins_z, m_x_array, m_y_array,
                   m_z_array, m_pcf_array, build, callVars, calls>>

(***************************************************************************)
(* The frames compute is called with.                                      *)
(***************************************************************************)
\* positions: the origin, two points next to it (squared distance below and
\* above 1e-6), (1, 0, 0) and (-1.5, 0, 0)
POrigin == Vec3(0, 0, 0)
PTiny == Vec3(1, 0, 0)
PNear == Vec3(2, 0, 0)
POne == Vec3(PosDen, 0, 0)
PFar == Vec3(-((3 * PosDen) \div 2), 0, 0)

\* orientations: the identity and the rotation by pi/2 about z
BinnerQuats == {0, QuarterTurn}

\* the arrays of len equal elements of S
Uniform(S, len) == {[k \in 1..len |-> e] : e \in S}

\* the frames of nref references and np points: computePy (lines 488-533)
\* passes orientation arrays as long as the position arrays; each array of
\* orientations is uniform here
FramesOfSize(nref, np, RefPos, PointPos, RefQuats, ExtraQuats, PointQuats) ==
    {Frame(refs, ref_q, pts, q, extra_q) :
        refs \in [1..nref -> RefPos], ref_q \in Uniform(RefQuats, nref),
        pts \in [1..np -> PointPos], q \in Uniform(PointQuats, np),
        extra_q \in Uniform(ExtraQuats, nref)}

\* the frames of 1..MaxPoints references and 1..MaxPoints points
Frames(RefPositions, PointPositions, RefQuats, ExtraQuats, PointQuats) ==
    UNION {FramesOfSize(nref, np, RefPositions, PointPositions, RefQuats,
                        ExtraQuats, PointQuats) :
              nref \in 1..MaxPoints, np \in 1..MaxPoints}

PmfInit ==
    /\ pmf_obj = "none"
    /\ m_box = Box(0, 0, 0, FALSE)
    /\ m_max_x = 0 /\ m_max_y = 0 /\ m_max_z = 0
    /\ m_dx = 0 /\ m_dy = 0 /\ m_dz = 0
    /\ m_nbins_x = 0 /\ m_nbins_y = 0 /\ m_nbins_z = 0
    /\ m_x_array = <<>> /\ m_y_array = <<>> /\ m_z_array = <<>>
    /\ m_pcf_array = <<>>
    /\ m_lc = FALSE
    /\ CallIdle
    /\ calls = 0

CubInit ==
    /\ obj = "none"
    /\ m_t_initial = 0
    /\ m_t_final = 0
    /\ m_scale = 0
    /\ m_gen_r4_tensor = ZeroTensor
    /\ m_n = 0
    /\ particle_rows = 0
    /\ m_global_tensor = ZeroTensor
    /\ m_cubatic_orientation = 0
    /\ m_cubatic_tensor = ZeroTensor
    /\ m_cubatic_order_parameter = NaNScore
    /\ pc = "idle"
    /\ n = 0
    /\ t_current = 0
    /\ loop_count = 0
    /\ last = "none"
    /\ previous_run = NoRun

Init == CubInit /\ PmfInit /\ build = "sse2"

Next ==
    \/ Construct
    \/ ComputeBegin
    \/ ProposeThrow
    \/ AcceptGreedy
    \/ AcceptBoltzmann
    \/ Reject
    \/ Return

Spec == Init /\ [][Next]_vars

(***************************************************************************)
(* SpecCap: one compute call followed through all iterations of its loop,  *)
(* on an annealer constructed with the generator RotatedBasisTensor(0),    *)
(* t_final = 2 (units of 2^-20) and either t_initial = 4 and scale = 1     *)
(* or t_initial = 8 and scale = 1/2.  The call is one of                   *)
(*   - one particle of orientation 0 and the initial orientation 0: the    *)
(*     global tensor is zero and the score is NaN at the orientations      *)
(*     0 mod 4 and 0 elsewhere, so the initial score is NaN and every      *)
(*     proposal is rejected or throws;                                     *)
(*   - one particle of orientation 2 and the initial orientation 1: the    *)
(*     score is -inf at 0, 0 at 1 and 1 at 2; with the test value TestMax  *)
(*     the walk stays in {1, 2} and every iteration may accept or reject.  *)
(***************************************************************************)
InitCap ==
    /\ obj = "constructed"
    /\ \/ m_t_initial = 4 /\ m_scale = ScaleDen
       \/ m_t_initial = 8 /\ m_scale = 1
    /\ m_t_final = 2
    /\ m_gen_r4_tensor = RotatedBasisTensor(0)
    /\ m_n = 0
    /\ particle_rows = 0
    /\ m_global_tensor = ZeroTensor
    /\ m_cubatic_orientation = 0
    /\ m_cubatic_tensor = ZeroTensor
    /\ m_cubatic_order_parameter \in UninitScores
    /\ pc = "idle"
    /\ n = 0
    /\ t_current = 0
    /\ loop_count = 0
    /\ last = "none"
    /\ previous_run = NoRun
    /\ PmfInit
    /\ build = "sse2"

CapComputeBegin ==
    /\ pc = "idle"
    /\ ComputeBegin
    /\ n' = 1
    /\ \/ m_global_tensor' = ZeroTensor /\ m_cubatic_orientation' = 0
       \/ m_global_tensor' # ZeroTensor /\ m_cubatic_orientation' = 1
CapProposeThrow == pc = "loop" /\ Iteration("throw", {TestMax})
CapAcceptGreedy == pc = "loop" /\ Iteration("greedy", {TestMax})
CapAcceptBoltzmann == pc = "loop" /\ Iteration("boltzmann", {TestMax})
CapReject == pc = "loop" /\ Iteration("reject", {TestMax})

NextCap ==
    \/ CapComputeBegin
    \/ CapProposeThrow
    \/ CapAcceptGreedy
    \/ CapAcceptBoltzmann
    \/ CapReject
    \/ Return

SpecCap == InitCap /\ [][NextCap]_vars

(***************************************************************************)
(* SpecRuns: two annealers, one after the other: the first is constructed, *)
(* computes once and is destroyed, then the second is constructed and      *)
(* computes once.  Both are constructed with t_initial = 4, t_final = 2    *)
(* (units of 2^-20), scale = 1/2 and the generator RotatedBasisTensor(0).  *)
(***************************************************************************)
RunsConstruct ==
    /\ Construct
    /\ m_t_initial' = 4 /\ m_t_final' = 2 /\ m_scale' = 1
    /\ m_gen_r4_tensor' = RotatedBasisTensor(0)
RunsComputeBegin == pc = "idle" /\ ComputeBegin
RunsDestroy == ~previous_run.done /\ Destroy

NextRuns ==
    \/ RunsConstruct
    \/ RunsComputeBegin
    \/ ProposeThrow
    \/ AcceptGreedy
    \/ AcceptBoltzmann
    \/ Reject
    \/ Return
    \/ RunsDestroy

SpecRuns == Init /\ [][NextRuns]_vars

(***************************************************************************)
(* SpecPMFT: the pair binner.                                              *)
(***************************************************************************)
InitPMFT == CubInit /\ PmfInit /\ build \in Builds

PmftFrames ==
    {Frame(<<POrigin>>, <<0>>, <<PNear>>, <<0>>, <<0>>),
     Frame(<<POrigin, PNear>>, <<0, QuarterTurn>>, <<PNear, POrigin>>, <<0, 0>>,
           <<QuarterTurn, QuarterTurn>>)}

PmftComputeBegin == calls < MaxCalls /\ computeBegin(PmftFrames, 1)
PmftWorkerStep == \E w \in Workers : calls < MaxCalls /\ WorkerStep(w)
PmftComputeReturn == calls < MaxCalls /\ computeReturn
PmftReset == calls > 0 /\ resetPCF

NextPMFT ==
    \/ PmfConstruct
    \/ PmftComputeBegin
    \/ PmftWorkerStep
    \/ PmftComputeReturn
    \/ PmftReset
    \/ PmfDestroy

SpecPMFT == InitPMFT /\ [][NextPMFT]_vars

(***************************************************************************)
(* SpecBin: the kernels, one worker, on a binner of 6x6x6 with max 0.5 and *)
(* step 0.5 (cell-listed kernel, 6x6x6 cells) or of 10x10x10 with max 2    *)
(* and step 0.5 (direct kernel), one compute call after construction and   *)
(* after each resetPCF.                                                    *)
(***************************************************************************)
BinFrames ==
    Frames({POrigin, PFar}, {POrigin, PTiny, PNear, POne}, BinnerQuats, {0},
           BinnerQuats)
    \cup {Frame(<<POrigin, POrigin>>, <<0, QuarterTurn>>, <<POne>>, <<0>>,
                <<0, 0>>)}

InitBin == CubInit /\ PmfInit /\ build \in Builds

BinConstruct ==
    \/ PMFXYZ(Box(12, 12, 12, FALSE), 1, 1, 1, 1, 1, 1)
    \/ PMFXYZ(Box(20, 20, 20, FALSE), 4, 4, 4, 1, 1, 1)
BinComputeBegin == calls = 0 /\ computeBegin(BinFrames, 1)
BinWorkerStep == \E w \in Workers : WorkerStep(w)
BinComputeReturn == calls = 0 /\ computeReturn
BinReset == calls > 0 /\ resetPCF

NextBin ==
    \/ BinConstruct
    \/ BinComputeBegin
    \/ BinWorkerStep
    \/ BinComputeReturn
    \/ BinReset

SpecBin == InitBin /\ [][NextBin]_vars

(***************************************************************************)
(* SpecPar: the direct kernel run by MaxWorkers concurrent workers on the  *)
(* binner of 10x10x10 with max 2 and step 0.5 built with __SSE2__ (no bin  *)
(* of its frames is negative), one compute call after construction and     *)
(* after each resetPCF.                                                    *)
(***************************************************************************)
ParFrames == Frames({POrigin, PNear}, {POrigin, POne}, {0}, BinnerQuats, {0})

InitPar == CubInit /\ PmfInit /\ build = "sse2"

ParConstruct == PMFXYZ(Box(20, 20, 20, FALSE), 4, 4, 4, 1, 1, 1)
ParComputeBegin == calls = 0 /\ computeBegin(ParFrames, MaxWorkers)
ParWorkerStep == \E w \in Workers : pmf_pc = "running" /\ WorkerStep(w)
ParComputeReturn == pmf_pc = "running" /\ computeReturn
ParReset == calls > 0 /\ resetPCF

NextPar ==
    \/ ParConstruct
    \/ ParComputeBegin
    \/ ParWorkerStep
    \/ ParComputeReturn
    \/ ParReset

SpecPar == InitPar /\ [][NextPar]_vars

(***************************************************************************)
(* The claims.                                                             *)
(***************************************************************************)
\* a step that is one iteration of the annealing loop
IsIteration == pc = "loop" /\ loop_count' = loop_count + 1
Accepted == {"greedy", "boltzmann"}

\* C1: in the annealing loop t_current is multiplied by scale exactly once
\* by each accepted proposal, and is left unchanged by a rejected proposal
\* and by every other step taken from inside the loop.
C1_TemperatureAdvancesOnlyOnAccept ==
    [][pc = "loop" =>
        IF IsIteration /\ last' \in Accepted
        THEN t_current' * ScaleDen = t_current * m_scale
        ELSE t_current' = t_current]_vars

\* one proposal was accepted and a later one rejected: the temperature is
\* still the one the acceptance left
C1_Witness ==
    /\ pc = "loop" /\ last = "reject" /\ loop_count = 2
    /\ t_current * ScaleDen = m_t_initial * m_scale
    /\ t_current # m_t_initial

\* C2: the annealing loop makes at most 10000 proposals; an iteration count
\* of 10000 with t_current still above t_final ends the loop: the only step
\* is the normal return, which keeps the committed orientation, tensor and
\* score.
C2_LoopEndsAtStepCap ==
    [][/\ loop_count' <= LoopCap
       /\ (pc = "loop" /\ loop_count = LoopCap) =>
            /\ pc' = "returned"
            /\ UNCHANGED <<m_cubatic_orientation, m_cubatic_tensor,
                           m_cubatic_order_parameter>>]_vars

\* compute returned at the cap with scale = 1 and the temperature never dropped
C2_Witness ==
    /\ pc = "returned" /\ loop_count = LoopCap
    /\ m_scale = ScaleDen /\ t_current > m_t_final

\* C3: between iterations, at return and after a throw the stored cubatic
\* tensor is the tensor of the stored orientation and the stored score is
\* the score of that tensor against the global tensor.
C3_CubaticStateConsistent ==
    pc \in {"loop", "returned", "thrown"} =>
        /\ m_cubatic_tensor =
               calcCubaticTensor(m_gen_r4_tensor, m_cubatic_orientation)
        /\ m_cubatic_order_parameter =
               calcCubaticOrderParameter(m_global_tensor, m_cubatic_tensor)

\* between two iterations, after an acceptance that moved the orientation
\* to one no compute starts from and a later rejection
C3_Witness ==
    /\ pc = "loop" /\ last = "reject"
    /\ t_current < m_t_initial
    /\ m_cubatic_orientation = 3

\* C4 as stated: every accepted proposal leaves the score greater than or
\* equal to its value before the acceptance.
C4_ScoreNonDecreasingOnAccept ==
    [][(IsIteration /\ last' \in Accepted) =>
        \/ FGreater(m_cubatic_order_parameter', m_cubatic_order_parameter)
        \/ FEqual(m_cubatic_order_parameter', m_cubatic_order_parameter)]_vars

\* C4 amended: a proposal accepted by the greedy test leaves the score
\* greater than before; a proposal accepted by the Boltzmann test leaves a
\* score that is not greater than before.
C4_GreedyAcceptIncreasesScore ==
    [][IsIteration =>
        /\ last' = "greedy" =>
             FGreater(m_cubatic_order_parameter', m_cubatic_order_parameter)
        /\ last' = "boltzmann" =>
             ~FGreater(m_cubatic_order_parameter', m_cubatic_order_parameter)]_vars

\* a greedy acceptance in the second or a later iteration, to a finite score
C4_Witness ==
    /\ pc = "loop" /\ last = "greedy" /\ loop_count >= 2
    /\ m_cubatic_order_parameter.cls = "fin"

\* C5 as stated: the constructor fails whenever t_initial <= t_final or
\* t_final <= 1e-6.
C5_TemperaturesRejected ==
    (obj # "none" /\ (m_t_initial <= m_t_final \/ m_t_final * MicroInv <= TempDen))
        => obj = "invalid_argument"

\* C6: with t_initial > t_final > 1e-6 the constructor fails exactly when
\* scale < 0 or scale > 1; scale = 0 and scale = 1 are accepted.
C6_ScaleRejectedOutsideUnitInterval ==
    (obj # "none" /\ m_t_initial > m_t_final /\ m_t_final * MicroInv > TempDen)
        => (obj = "invalid_argument" <=> (m_scale < 0 \/ m_scale > ScaleDen))

\* an annealer was constructed with scale = 1
C6_Witness ==
    /\ obj = "constructed" /\ m_scale = ScaleDen
    /\ m_t_initial > m_t_final /\ m_t_final * MicroInv > TempDen

\* C7 as stated: a NaN proposal score makes compute throw in that iteration
\* with the committed state untouched, and compute never returns normally
\* with a NaN score.
C7_NoNaNScoreAtReturn ==
    /\ pc = "thrown" =>
         /\ last = "throw"
         /\ m_cubatic_order_parameter =
              calcCubaticOrderParameter(m_global_tensor,
                  calcCubaticTensor(m_gen_r4_tensor, m_cubatic_orientation))
    /\ pc = "returned" => ~IsNaN(m_cubatic_order_parameter)

\* the constructor of the binner has run and the binner is not destroyed
PmfConstructorRan == pmf_obj \notin {"none", "destroyed", "invalid_delete"}

\* C8 as stated: the constructor of the binner fails whenever a grid step is
\* zero or negative.
C8_NonPositiveStepRejected ==
    (PmfConstructorRan /\ (m_dx <= 0 \/ m_dy <= 0 \/ m_dz <= 0))
        => pmf_obj = "invalid_argument"

\* the constructor's arguments pass every check the specification lists
PmfArgumentsValid ==
    /\ m_dx > 0 /\ m_dy > 0 /\ m_dz > 0
    /\ m_max_x >= 0 /\ m_max_y >= 0 /\ m_max_z >= 0
    /\ m_dx <= m_max_x /\ m_dy <= m_max_y /\ m_dz <= m_max_z
    /\ 2 * m_max_x <= m_box.Lx /\ 2 * m_max_y <= m_box.Ly
    /\ m_box.is2D \/ 2 * m_max_z <= m_box.Lz

IsTwiceFloor(nbins, max, d) ==
    \E k \in 0..max : nbins = 2 * k /\ k * d <= max /\ max < (k + 1) * d

\* center[i] = -max + (i + 0.5) * d for every 0 <= i < nbins, in units of
\* 1/(2*LenDen)
IsCenterArray(array, nbins, max, d) ==
    /\ Len(array) = nbins
    /\ \A i \in 0..(nbins - 1) : array[i + 1] = -(2 * max) + (2 * i + 1) * d

\* C10 as stated: every constructed binner has nbins_a = 2*floor(max_a/da)
\* on each axis, a zeroed histogram of nbins_x*nbins_y*nbins_z counters and
\* the bin centers -max_a + (i + 0.5)*da (before the first compute call
\* counts in it).
C10_GridAfterConstruction ==
    (pmf_obj = "constructed" /\ pmf_pc = "idle" /\ calls = 0) =>
        /\ IsTwiceFloor(m_nbins_x, m_max_x, m_dx)
        /\ IsTwiceFloor(m_nbins_y, m_max_y, m_dy)
        /\ IsTwiceFloor(m_nbins_z, m_max_z, m_dz)
        /\ Len(m_pcf_array) = m_nbins_x * m_nbins_y * m_nbins_z
        /\ \A k \in 1..Len(m_pcf_array) : m_pcf_array[k] = 0
        /\ IsCenterArray(m_x_array, m_nbins_x, m_max_x, m_dx)
        /\ IsCenterArray(m_y_array, m_nbins_y, m_max_y, m_dy)
        /\ IsCenterArray(m_z_array, m_nbins_z, m_max_z, m_dz)

\* C10 on the binners constructed with positive steps, where it holds
C10_GridForPositiveSteps ==
    (m_dx > 0 /\ m_dy > 0 /\ m_dz > 0) => C10_GridAfterConstruction

(***************************************************************************)
(* The claims on the binning kernels.                                      *)
(***************************************************************************)
\* a step that is one turn of the inner loop of worker w
IsWorkerStep(w) ==
    pmf_pc = "running" /\ pmf_pc' = "running" /\ worker'[w] # worker[w]

\* the pair worker w visits next
VisitedPair(w) ==
    LET at == worker[w]
    IN  Pair(CurrentFrame, at.i,
             Candidates(kernel, m_ref_points[at.i], m_points)[at.c])

\* 0 <= b < nbins for the floored coordinate b
FlooredInRange(b, nbins) == b.cls = "fin" /\ 0 <= b.v /\ b.v < nbins

PairInRange(p) ==
    /\ FlooredInRange(p.binx, m_nbins_x) /\ FlooredInRange(p.biny, m_nbins_y)
    /\ FlooredInRange(p.binz, m_nbins_z)

\* bz*nx*ny + by*nx + bx of the floored coordinates
FlooredIndex(p) ==
    p.binz.v * m_nbins_x * m_nbins_y + p.biny.v * m_nbins_x + p.binx.v

\* what C11 says of the step of a worker that visits the pair p
CountsOnlyInRange(p) ==
    /\ m_pcf_array' # m_pcf_array =>
        /\ PairInRange(p)
        /\ FlooredIndex(p) < m_nbins_x * m_nbins_y * m_nbins_z
        /\ m_pcf_array' = [m_pcf_array EXCEPT ![FlooredIndex(p) + 1] = @ + 1]
    /\ ~PairInRange(p) => m_pcf_array' = m_pcf_array /\ pmf_obj' = "constructed"

\* C11: in both kernels a pair increments a counter only if its floored
\* coordinates satisfy 0 <= bx < nbins_x, 0 <= by < nbins_y, 0 <= bz < nbins_z,
\* and then exactly the counter at bz*nx*ny + by*nx + bx, which is below
\* nx*ny*nz; a pair with a floored coordinate that is negative or >= nbins
\* changes no counter and raises no error.
C11_OnlyInRangePairsCount ==
    [][\A w \in Workers : IsWorkerStep(w) => CountsOnlyInRange(VisitedPair(w))]_vars

\* C11 on the builds with __SSE2__, where the conversion is defined
C11_OnlyInRangePairsCountWithSSE2 ==
    [][\A w \in Workers :
        IsWorkerStep(w) /\ build = "sse2" => CountsOnlyInRange(VisitedPair(w))]_vars

\* a pair with a negative floored coordinate has been visited by each kernel
C11_NegativeBinVisited ==
    /\ pmf_pc = "running"
    /\ \E w \in Workers :
        /\ worker[w].i < worker[w].end
        /\ VisitedPair(w).binx.v < 0
        /\ ~VisitedPair(w).skipped

\* the histogram h after the pairs of the frame f that the kernel k visits
\* from the c-th candidate of reference i on, in the order of the loops
RECURSIVE CountFrom(_, _, _, _, _)
CountFrom(h, f, k, i, c) ==
    IF i > Len(f.ref_points) THEN h
    ELSE LET cand == Candidates(k, f.ref_points[i], f.points)
         IN  IF c > Len(cand) THEN CountFrom(h, f, k, i + 1, 1)
             ELSE LET p == Pair(f, i, cand[c])
                  IN  CountFrom(IF p.binned
                                THEN [h EXCEPT ![p.index + 1] = @ + 1] ELSE h,
                                f, k, i, c + 1)

\* the histogram a single worker leaves that starts from start and goes
\* through all the references of f in turn
SequentialHistogram(start, f, k) == CountFrom(start, f, k, 1, 1)

\* parallel_for is at its join: every worker has finished, compute has not
\* returned yet
AtJoin == pmf_pc = "running" /\ AllDone

\* C12: however [0, Nref) is cut among the workers and however their steps
\* interleave, no increment is lost: when the workers have finished, the
\* histogram is the one a single worker leaves that processes all the
\* references in turn.
C12_NoIncrementLost ==
    AtJoin => m_pcf_array = SequentialHistogram(pcf_start, CurrentFrame, kernel)

\* two workers, one reference each, have counted their pairs in the same bin
C12_Witness ==
    /\ AtJoin
    /\ worker[1].end = 2 /\ worker[2].end = 3
    /\ \E b \in 1..Len(m_pcf_array) : m_pcf_array[b] = 2 /\ pcf_start[b] = 0

\* r_max < L_min/3 for the binner: compute runs the cell-listed kernel
CellListed == useCells(m_box, m_max_x, m_max_y, m_max_z)

\* C13: for inputs with r_max < L_min/3 the cell-listed kernel leaves the
\* histogram the direct kernel leaves from the same start: the counts of
\* the pairs of every reference with all the points.
C13_CellKernelMatchesDirect ==
    (AtJoin /\ CellListed /\ kernel = "cell") =>
        m_pcf_array = SequentialHistogram(pcf_start, CurrentFrame, "direct")

\* C13 on the builds with __SSE2__, where the conversion is defined
C13_CellKernelMatchesDirectWithSSE2 ==
    build = "sse2" => C13_CellKernelMatchesDirect

\* the cell-listed kernel has finished a frame with a point outside the
\* neighbor cells of a reference and a point inside them that was counted
C13_PointOutsideNeighborCells ==
    /\ AtJoin /\ kernel = "cell"
    /\ \E i \in 1..Len(m_ref_points) :
        Len(CellCandidates(m_ref_points[i], m_points)) < Len(m_points)
    /\ m_pcf_array # pcf_start

\* the least of a set of lengths
MinOf(S) == CHOOSE l \in S : \A other \in S : l <= other

\* L_min: min(Lx, Ly) for a 2D box and min(Lx, Ly, Lz) otherwise
LMin == IF m_box.is2D THEN MinOf({m_box.Lx, m_box.Ly})
        ELSE MinOf({m_box.Lx, m_box.Ly, m_box.Lz})

\* the square of r_max
RMaxSquared == m_max_x * m_max_x + m_max_y * m_max_y + m_max_z * m_max_z

\* C14: the binner uses the cell-listed kernel exactly when r_max < L_min/3
\* and the direct kernel otherwise, r_max = L_min/3 included; the choice is
\* the same at construction (a cell list is created), at every compute (the
\* kernel that runs) and at destruction (the cell list is deleted), so a
\* cell list is used and deleted only if one was created.
C14_CellListExactlyBelowThird ==
    /\ pmf_obj = "constructed" => (m_lc <=> 9 * RMaxSquared < LMin * LMin)
    /\ pmf_pc = "running" =>
        /\ kernel = (IF 9 * RMaxSquared < LMin * LMin THEN "cell" ELSE "direct")
        /\ kernel = "cell" => m_lc
    /\ pmf_obj # "invalid_delete"
    /\ pmf_obj = "destroyed" => ~m_lc

\* compute runs the direct kernel on a binner with r_max = L_min/3
C14_Witness ==
    /\ pmf_pc = "running" /\ kernel = "direct" /\ ~m_lc
    /\ 9 * RMaxSquared = LMin * LMin

\* compute runs the cell-listed kernel in a 2D box with Lz < 3 r_max
C14_WitnessCellListIn2D ==
    /\ pmf_pc = "running" /\ kernel = "cell" /\ m_lc
    /\ m_box.is2D /\ 9 * RMaxSquared >= m_box.Lz * m_box.Lz

\* the index in points of the point worker w visits next
VisitedPoint(w) ==
    Candidates(kernel, m_ref_points[worker[w].i], m_points)[worker[w].c]

\* each component of delta has a squared magnitude below 1e-6
AllComponentsBelow(delta) ==
    \A c \in {delta.x, delta.y, delta.z} :
        c * c < PosDen /\ c * c * MicroInv < PosDen * PosDen

\* what C15 says of the step of worker w
SkipsOnlySameParticle(w) ==
    LET p == VisitedPair(w)
    IN  /\ m_points[VisitedPoint(w)] = m_ref_points[worker[w].i] =>
             m_pcf_array' = m_pcf_array
        /\ p.skipped <=> AllComponentsBelow(p.delta)
        /\ AllComponentsBelow(p.delta) => m_pcf_array' = m_pcf_array
        /\ (~AllComponentsBelow(p.delta) /\ PairInRange(p)) =>
             m_pcf_array' = [m_pcf_array EXCEPT ![FlooredIndex(p) + 1] = @ + 1]

\* C15: the pair of a reference particle with its own entry in points
\* contributes no count; a pair is skipped exactly when each component of
\* the wrapped displacement has a squared magnitude below 1e-6, and a pair
\* with a component at or above the threshold is not skipped by this test
\* (it is counted if its floored coordinates are in the grid).
C15_OwnEntryNotCounted ==
    [][\A w \in Workers : IsWorkerStep(w) => SkipsOnlySameParticle(w)]_vars

\* points holds the reference particle and a point 0.002 away from it: the
\* kernel has passed both and counted one pair
C15_Witness ==
    /\ AtJoin
    /\ m_ref_points = <<POrigin>> /\ m_points = <<POrigin, PNear>>
    /\ \E b \in 1..Len(m_pcf_array) :
        m_pcf_array = [pcf_start EXCEPT ![b] = @ + 1]

\* no counter of the histogram h2 is below its value in h1
NoCounterDecreases(h1, h2) ==
    Len(h2) = Len(h1) /\ \A b \in 1..Len(h1) : h2[b] >= h1[b]

\* C16: compute never clears or decreases a counter and adds to the
\* histogram it finds the contribution of its frame; reset sets every
\* counter to zero and leaves the binner as the constructor does, so each
\* counter is the sum of the contributions of the compute calls made since
\* the last reset, or since construction.
C16_HistogramAccumulates ==
    [][/\ (pmf_pc = "idle" /\ pmf_pc' = "running") =>
            m_pcf_array' = m_pcf_array /\ pcf_start' = m_pcf_array
       /\ (pmf_pc = "running" /\ pmf_pc' = "running") =>
            NoCounterDecreases(m_pcf_array, m_pcf_array')
       /\ (pmf_pc = "running" /\ pmf_pc' = "idle") =>
            /\ m_pcf_array' = m_pcf_array
            /\ m_pcf_array =
                 SequentialHistogram(pcf_start, CurrentFrame, kernel)
            /\ calls' = calls + 1
       /\ (pmf_pc = "idle" /\ pmf_pc' = "idle" /\ pmf_obj = "constructed") =>
            \/ m_pcf_array' = m_pcf_array /\ calls' = calls
            \/ /\ calls' = 0 /\ pmf_obj' = "constructed"
               /\ m_pcf_array' = [b \in 1..Len(m_pcf_array) |-> 0]]_vars

\* the second compute call since the last reset has added to a counter the
\* first one had counted in
C16_Witness ==
    /\ pmf_pc = "idle" /\ calls = 2
    /\ \E b \in 1..Len(m_pcf_array) : m_pcf_array[b] = 2
    /\ \A b \in 1..Len(m_pcf_array) : m_pcf_array[b] <= 2

\* the histogram whose only nonzero counter is a 1 at bin (bx, by, bz)
OneCountAt(bx, by, bz) ==
    [b \in 1..(m_nbins_x * m_nbins_y * m_nbins_z) |->
        IF b = bz * m_nbins_x * m_nbins_y + by * m_nbins_x + bx + 1 THEN 1 ELSE 0]

\* compute has gone through the frame of scenarios C and D on a fresh binner
\* of box 10x10x10, max (2,2,2), step (0.5,0.5,0.5): ref_points = [(0,0,0)],
\* points = [(1,0,0)], extra orientation identity, ref_orientations[0] = ref_q
ScenarioDone(ref_q) ==
    /\ AtJoin
    /\ m_box = Box(10 * LenDen, 10 * LenDen, 10 * LenDen, FALSE)
    /\ m_max_x = 2 * LenDen /\ m_max_y = 2 * LenDen /\ m_max_z = 2 * LenDen
    /\ 2 * m_dx = LenDen /\ 2 * m_dy = LenDen /\ 2 * m_dz = LenDen
    /\ m_ref_points = <<Vec3(0, 0, 0)>> /\ m_points = <<Vec3(PosDen, 0, 0)>>
    /\ m_extra_orientations = <<0>>
    /\ m_ref_orientations = <<ref_q>>
    /\ \A b \in 1..Len(pcf_start) : pcf_start[b] = 0

\* C17 as stated: scenario D, with ref_orientations[0] the rotation by pi/2
\* about z, leaves exactly one nonzero counter, with value 1, at bin (4, 2, 4).
C17_ScenarioD ==
    ScenarioDone(QuarterTurn) => m_pcf_array = OneCountAt(4, 2, 4)

\* C17 amended: scenario D leaves exactly one nonzero counter, with value 1,
\* at bin (4, 6, 4): the vector binned is ref - point = (-1,0,0) rotated by
\* the conjugate of the reference orientation into (0,1,0).
C17_ScenarioDBinsRefMinusPoint ==
    ScenarioDone(QuarterTurn) => m_pcf_array = OneCountAt(4, 6, 4)

\* scenario D has run
C17_Witness == ScenarioDone(QuarterTurn) /\ m_orientations = <<0>>

\* C18: scenario C, with all orientations identity, leaves exactly one
\* nonzero counter, with value 1, at bin (2, 4, 4): the displacement binned
\* is ref - point = (-1,0,0).
C18_ScenarioC ==
    (ScenarioDone(0) /\ m_orientations = <<0>>) =>
        m_pcf_array = OneCountAt(2, 4, 4)

\* scenario C has run
C18_Witness ==
    /\ ScenarioDone(0) /\ m_orientations = <<0>>
    /\ Len(m_pcf_array) = 512

\* the arrays compute may be given as the target orientations of its points
TargetOrientations == Uniform(BinnerQuats, Len(m_points))

\* C19: the histogram compute leaves does not depend on the target
\* orientations: in both kernels it is the histogram of the call that
\* differs only in that array, whatever the array.
C19_TargetOrientationsUnused ==
    AtJoin =>
        \A q \in TargetOrientations :
            m_pcf_array =
                SequentialHistogram(pcf_start,
                                    [CurrentFrame EXCEPT !.orientations = q],
                                    kernel)

\* compute has counted a pair whose targets are turned by pi/2 and whose
\* reference is not
C19_Witness ==
    /\ AtJoin
    /\ m_ref_orientations = <<0>> /\ m_orientations = <<QuarterTurn>>
    /\ m_ref_points = <<POrigin>> /\ m_points = <<POne>>
    /\ m_pcf_array # pcf_start

(***************************************************************************)
(* The claim on the annealer's generator.                                  *)
(***************************************************************************)
\* C20: the annealer is reproducible: a run that is given everything the
\* caller can choose (the constructor's arguments, a seed among them, and
\* the orientations) as the run before it ends with exactly the same
\* orientation, cubatic tensor and score.
C20_SameInputsSameResult ==
    (pc = "returned" /\ previous_run.done /\ previous_run.inputs = RunInputs) =>
        previous_run.result = RunResult

\* a second run has returned on the inputs of the first
C20_SecondRunReturned ==
    pc = "returned" /\ previous_run.done /\ previous_run.inputs = RunInputs

(***************************************************************************)
(* The claims on the score, the particle buffer and the annealing loop.    *)
(***************************************************************************)
\* the float 1.0
ScoreOne == Fin(1, 1)

\* what C21 says of the score s of the global tensor G and the tensor M
ScoreBounded(s, G, M) ==
    /\ FGreater(ScoreOne, s) \/ FEqual(ScoreOne, s)
    /\ FEqual(s, ScoreOne) <=> G = M

\* C21: after a compute that returns normally the score is at most 1, and
\* it is 1 exactly when the global tensor equals the stored cubatic tensor
\* element by element.
C21_ScoreAtMostOne ==
    pc = "returned" =>
        ScoreBounded(m_cubatic_order_parameter, m_global_tensor, m_cubatic_tensor)

\* C21 for the calls that return a score that is not NaN
C21_ScoreAtMostOneUnlessNaN ==
    (pc = "returned" /\ ~IsNaN(m_cubatic_order_parameter)) =>
        ScoreBounded(m_cubatic_order_parameter, m_global_tensor, m_cubatic_tensor)

\* compute has returned the score 1 with the two tensors equal
C21_ReturnedScoreOne ==
    /\ pc = "returned" /\ FEqual(m_cubatic_order_parameter, ScoreOne)
    /\ m_global_tensor = m_cubatic_tensor

\* C22: the particle-tensor buffer compute(n) writes has room for n rows, in
\* a call that follows a call that failed with the NaN error too; between
\* calls m_n is the row count of the allocated buffer.
C22_BufferHoldsNRows ==
    /\ pc \in {"loop", "crashed"} => particle_rows >= n
    /\ (obj = "constructed" /\ pc \in {"idle", "returned", "thrown"}) =>
         m_n = particle_rows

\* compute(n) is past its writes of n rows to a buffer of fewer rows
C22_WriteBeyondBuffer == pc = "loop" /\ particle_rows < n

\* t_initial * scale^a, as a multiplications by scale produce it
RECURSIVE TemperatureAfter(_)
TemperatureAfter(a) ==
    IF a = 0 THEN m_t_initial ELSE FMulScale(TemperatureAfter(a - 1), m_scale)

\* the exponents at which the cooled temperature is not above t_final; a
\* temperature of t units is 0 after t multiplications by a scale below 1
Cooled == {k \in 0..m_t_initial : TemperatureAfter(k) <= m_t_final}
IsSmallestCooled(a) == a \in Cooled /\ \A k \in Cooled : a <= k

\* the exponents the temperature at the loop head can have after loop_count
\* proposals
RECURSIVE ExponentFrom(_)
ExponentFrom(a) ==
    IF a > loop_count THEN -1
    ELSE IF t_current = TemperatureAfter(a) THEN a
    ELSE ExponentFrom(a + 1)
HeadExponent == ExponentFrom(0)

\* the step that leaves the loop by its condition
IsLoopExit == pc = "loop" /\ pc' = "returned"

\* t_current = t_initial * scale^a at the loop head with a <= loop_count <=
\* 10000, a one more after an accepted proposal and the same after a rejected
\* one, and a proposal is made only while a is below every cooled exponent
ClosedFormAtHead ==
    /\ pc = "loop" => (HeadExponent >= 0 /\ loop_count <= LoopCap)
    /\ IsIteration =>
         /\ HeadExponent \notin Cooled
         /\ \A k \in Cooled : HeadExponent < k
         /\ pc' = "loop" =>
              t_current' = TemperatureAfter(IF last' \in Accepted
                                            THEN HeadExponent + 1
                                            ELSE HeadExponent)

\* C23: at the head of every iteration t_current = t_initial * scale^a, a the
\* number of proposals accepted so far in this call, and a <= loop_count <=
\* 10000; the loop exits by temperature exactly when a reaches the smallest
\* k with t_initial * scale^k <= t_final; with scale = 1 and t_initial above
\* t_final there is no such k, and the loop ends only after 10000 proposals
\* or by the NaN error.
C23_ClosedFormTemperature ==
    [][/\ ClosedFormAtHead
       /\ IsLoopExit =>
            \/ IsSmallestCooled(HeadExponent)
            \/ loop_count = LoopCap
       /\ (m_scale = ScaleDen /\ m_t_initial > m_t_final) =>
            /\ Cooled = {}
            /\ IsLoopExit => loop_count = LoopCap]_vars

\* C23 as stated: the same, and with scale = 1 every compute call runs the
\* full 10000 proposals.
C23_FullRunAtScaleOne ==
    [][/\ ClosedFormAtHead
       /\ IsLoopExit =>
            \/ IsSmallestCooled(HeadExponent)
            \/ loop_count = LoopCap
       /\ (m_scale = ScaleDen /\ pc = "loop" /\ pc' # "loop") =>
            loop_count' = LoopCap]_vars

\* compute left the loop by temperature after two acceptances among more
\* than two proposals, with scale = 1/2 and t_initial = 4 * t_final
C23_Witness ==
    /\ pc = "returned" /\ loop_count > 2 /\ loop_count < LoopCap
    /\ m_scale = 1 /\ m_t_initial = 4 * m_t_final
    /\ t_current = TemperatureAfter(2) /\ t_current = m_t_final

\* the orientations one small random rotation away from q
SmallRotationsOf(q) ==
    {QuatMul(fromAxisAngle(axis, angle), q) : axis \in Axes, angle \in ProposalAngles}

\* the step is what the loop body does with the proposal p: it throws on a
\* NaN score, commits p with its tensor and score, or rejects p
StepTakenWith(p) ==
    LET tensor == calcCubaticTensor(m_gen_r4_tensor, p)
        score == calcCubaticOrderParameter(m_global_tensor, tensor)
    IN  \/ /\ last' = "throw"
           /\ IsNaN(score)
           /\ m_cubatic_orientation' = m_cubatic_orientation
        \/ /\ last' \in Accepted
           /\ ~IsNaN(score)
           /\ m_cubatic_orientation' = p
           /\ m_cubatic_tensor' = tensor
           /\ m_cubatic_order_parameter' = score
        \/ /\ last' = "reject"
           /\ ~IsNaN(score)
           /\ ~FGreater(score, m_cubatic_order_parameter)
           /\ m_cubatic_orientation' = m_cubatic_orientation

\* C24: every proposal is a small random rotation applied to the orientation
\* committed last (m_cubatic_orientation), never to a proposal that was
\* rejected: each iteration is the loop body taken with such a proposal.
C24_ProposalFromCommitted ==
    [][IsIteration =>
        \E p \in SmallRotationsOf(m_cubatic_orientation) : StepTakenWith(p)]_vars

\* the second proposal was accepted after the first was rejected, and the
\* committed orientation is one small rotation away from the initial one
C24_Witness ==
    /\ pc = "loop" /\ loop_count = 2 /\ last \in Accepted
    /\ m_scale = 1 /\ t_current * ScaleDen = m_t_initial
    /\ \E angle \in InitialAngles :
         m_cubatic_orientation \in SmallRotationsOf(angle) \ {angle}

(***************************************************************************)
(* The claim on the bin centers and the binning rule.                      *)
(***************************************************************************)
\* a bin center (units of 1/(2*LenDen)) as a body-frame coordinate
CenterToPos(c) == c * (PosDen \div (2 * LenDen))

\* the kernels' unsigned bin of the coordinate c on an axis with half-extent
\* max and step d: shift by max, multiply by 1/d, floor, convert
AxisBin(c, max, d, bld) == FloatToUnsigned(FloorBin(c + ToPos(max), d), bld)

\* every center of the array is binned at its own index, in either build
CentersFloorToOwnBin(array, nbins, max, d) ==
    \A i \in 0..(nbins - 1), bld \in Builds :
        LET u == AxisBin(CenterToPos(array[i + 1]), max, d, bld)
        IN  UnsignedLess(u, nbins) /\ u.low = i

\* C25: on every axis a and for 0 <= i < nbins_a, a body-frame coordinate
\* equal to center_a[i] is mapped by the kernels (shift by max_a, divide by
\* da, floor) to bin i.
C25_CentersFloorToOwnBin ==
    pmf_obj = "constructed" =>
        /\ CentersFloorToOwnBin(m_x_array, m_nbins_x, m_max_x, m_dx)
        /\ CentersFloorToOwnBin(m_y_array, m_nbins_y, m_max_y, m_dy)
        /\ CentersFloorToOwnBin(m_z_array, m_nbins_z, m_max_z, m_dz)

\* C25 on the binners constructed with positive steps, where it holds
C25_CentersForPositiveSteps ==
    (m_dx > 0 /\ m_dy > 0 /\ m_dz > 0) => C25_CentersFloorToOwnBin

\* a binner with four bins on an axis of positive step
C25_FourBins == pmf_obj = "constructed" /\ m_dx > 0 /\ m_nbins_x = 4

====
